---- MODULE Spec2Model ----
(***************************************************************************)
(* MetalSlugFont: text -> glyph lookup -> left-to-right compositing.        *)
(*                                                                         *)
(* Python values are modelled as follows.                                  *)
(*   str            a TLA+ string; s[i] is SubSeq(s, i+1, i+1)              *)
(*   None / value   the empty tuple << >> / the one-element tuple <<v>>     *)
(*   PIL image      a record [src, w, h]: the file it was decoded from     *)
(*                  (or "new" for Image.new) and its size                   *)
(*   dict           a function whose DOMAIN is the set of keys             *)
(***************************************************************************)
EXTENDS Integers, Sequences, FiniteSets, TLC

(***************************************************************************)
(* Bounds of the model.                                                    *)
(***************************************************************************)
\* longest text typed into the entry / passed to the renderer
MaxLen == 3
\* long inputs of generate_filename have untruncated names whose length
\* lies within Slack of MAX_FILENAME_LENGTH, on both sides
Slack == 2

(***************************************************************************)
(* Constants of main.py.                                                   *)
(***************************************************************************)
SPACE_WIDTH == 30
MAX_FILENAME_LENGTH == 255
DESKTOP_PATH == "~/Desktop"

None == << >>
Some(v) == <<v>>

Min(a, b) == IF a < b THEN a ELSE b

(***************************************************************************)
(* Python's str methods on the characters the model uses.                  *)
(***************************************************************************)
UpperLetters == {"A", "E", "H", "W"}
LowerLetters == {"a", "d", "e", "i", "l", "o", "r", "t", "x"}
DigitChars == {"7"}
WhitespaceChars == {" ", "\t"}

CharAt(s, i) == SubSeq(s, i, i)

isalpha(c) == c \in UpperLetters \cup LowerLetters
islower(c) == c \in LowerLetters
isdigit(c) == c \in DigitChars
isspace(c) == c \in WhitespaceChars

\* str.isalnum: non-empty and every character a letter or a digit
isalnum(s) ==
    /\ Len(s) > 0
    /\ \A i \in 1..Len(s) : isalpha(CharAt(s, i)) \/ isdigit(CharAt(s, i))

lower_char(c) ==
    CASE c = "A" -> "a"
      [] c = "E" -> "e"
      [] c = "H" -> "h"
      [] c = "W" -> "w"
      [] OTHER -> c

\* The recursions over a string halve it, so that their depth stays small
\* on the long inputs of generate_filename.
RECURSIVE lower(_)
lower(s) ==
    IF Len(s) = 0 THEN ""
    ELSE IF Len(s) = 1 THEN lower_char(s)
    ELSE LET h == Len(s) \div 2
         IN  lower(SubSeq(s, 1, h)) \o lower(SubSeq(s, h + 1, Len(s)))

SetMin(S) == CHOOSE m \in S : \A n \in S : m <= n
SetMax(S) == CHOOSE m \in S : \A n \in S : n <= m

\* str.strip(): from the first to the last character that is no whitespace
strip(s) ==
    LET kept == {i \in 1..Len(s) : ~isspace(CharAt(s, i))}
    IN  IF kept = {} THEN "" ELSE SubSeq(s, SetMin(kept), SetMax(kept))

\* str.split() with no argument: the maximal runs of non-whitespace, in
\* order.  A run starts at i when s[i] is no whitespace and s[i-1] is.
token_starts(s) ==
    {i \in 1..Len(s) : /\ ~isspace(CharAt(s, i))
                       /\ (i = 1 \/ isspace(CharAt(s, i - 1)))}

token_end(s, i) ==
    SetMin({j \in i..Len(s) : j = Len(s) \/ isspace(CharAt(s, j + 1))})

RECURSIVE tokens_from(_, _)
tokens_from(s, starts) ==
    IF starts = {} THEN << >>
    ELSE LET i == SetMin(starts)
         IN  <<SubSeq(s, i, token_end(s, i))>> \o tokens_from(s, starts \ {i})

split(s) == tokens_from(s, token_starts(s))

RECURSIVE join(_, _)
join(sep, toks) ==
    IF toks = << >> THEN ""
    ELSE IF Len(toks) = 1 THEN toks[1]
    ELSE toks[1] \o sep \o join(sep, Tail(toks))

\* filter(str.isalnum, tokens)
filter_isalnum(toks) == SelectSeq(toks, isalnum)

(***************************************************************************)
(* datetime.now().strftime("%Y%m%d-%H%M%S")                                *)
(***************************************************************************)
DigitStr == <<"0", "1", "2", "3", "4", "5", "6", "7", "8", "9">>

RECURSIVE zero_pad(_, _)
zero_pad(n, width) ==
    IF width = 0 THEN ""
    ELSE zero_pad(n \div 10, width - 1) \o DigitStr[(n % 10) + 1]

strftime(now) ==
    zero_pad(now.year, 4) \o zero_pad(now.month, 2) \o zero_pad(now.day, 2)
    \o "-"
    \o zero_pad(now.hour, 2) \o zero_pad(now.minute, 2) \o zero_pad(now.second, 2)

\* the wall clock readings the model draws datetime.now() from
Clocks ==
    { [year |-> 2024, month |-> 1, day |-> 9, hour |-> 7, minute |-> 5, second |-> 3],
      [year |-> 2026, month |-> 11, day |-> 30, hour |-> 23, minute |-> 59, second |-> 59] }

(***************************************************************************)
(* generate_filename                                                       *)
(***************************************************************************)
sanitize_input(user_input) == join("-", filter_isalnum(split(user_input)))

untruncated_filename(user_input, now) ==
    sanitize_input(user_input) \o "-" \o strftime(now) \o ".png"

\* mutant: the slice [:MAX_FILENAME_LENGTH] left out
truncate_none(name) == name

truncate(name) == SubSeq(name, 1, Min(MAX_FILENAME_LENGTH, Len(name)))

generate_filename(user_input, now) ==
    truncate(untruncated_filename(user_input, now))

(***************************************************************************)
(* get_font_paths                                                          *)
(***************************************************************************)
\* os.path.join of a directory and a relative name
path_join(a, b) == a \o "/" \o b

\* str(font) for the font ids 1..5 of the font combobox
int_str(n) == DigitStr[n + 1]

get_font_paths(font, color) ==
    LET base_path == "Assets/FONTS/Font-" \o int_str(font)
                     \o "/Font-" \o int_str(font) \o "-" \o color
    IN  << path_join(base_path, "Letters"),
           path_join(base_path, "Numbers"),
           path_join(base_path, "Symbols") >>

(***************************************************************************)
(* The asset tree on disk, as os.path.isfile and Image.open see it.        *)
(* A file is a PNG of some size, or damaged in one of three ways:          *)
(*   "garbage"     Image.open raises UnidentifiedImageError                *)
(*   "oddmode"     convert('RGBA') raises ValueError                       *)
(*   "unreadable"  Image.open raises PermissionError                       *)
(* Font-1-Blue is complete with one glyph height; Font-1-Orange-1 has      *)
(* glyphs of several heights, no Exclamation.png, and a file named ".png"  *)
(* in Symbols; Font-2-Blue is damaged; Font-5-Blue does not exist.         *)
(***************************************************************************)
Png(w, h) == [status |-> "png", w |-> w, h |-> h]
Damaged(how) == [status |-> how, w |-> 0, h |-> 0]

Disk ==
    LET B  == get_font_paths(1, "Blue")
        O  == get_font_paths(1, "Orange-1")
        D  == get_font_paths(2, "Blue")
        up(r, n) == path_join(path_join(r[1], "Upper-Case"), n)
        lo(r, n) == path_join(path_join(r[1], "Lower-Case"), n)
        nu(r, n) == path_join(r[2], n)
        sy(r, n) == path_join(r[3], n)
    IN  up(B, "A.png") :> Png(5, 3) @@ up(B, "E.png") :> Png(5, 3)
        @@ lo(B, "a.png") :> Png(4, 3) @@ lo(B, "e.png") :> Png(4, 3)
        @@ lo(B, "x.png") :> Png(4, 3) @@ lo(B, "i.png") :> Png(2, 3)
        @@ lo(B, "t.png") :> Png(3, 3)
        @@ nu(B, "7.png") :> Png(3, 3)
        @@ sy(B, "Exclamation.png") :> Png(2, 3)
        @@ up(O, "A.png") :> Png(5, 7) @@ lo(O, "a.png") :> Png(4, 5)
        @@ nu(O, "7.png") :> Png(3, 6) @@ sy(O, ".png") :> Png(1, 2)
        @@ up(D, "A.png") :> Damaged("garbage")
        @@ lo(D, "a.png") :> Png(4, 3)
        @@ nu(D, "7.png") :> Damaged("oddmode")
        @@ sy(D, "Exclamation.png") :> Damaged("unreadable")

isfile(path) == path \in DOMAIN Disk

(***************************************************************************)
(* Exceptions: [type, msg].  isinstance follows Python's class hierarchy   *)
(* for the types that occur.                                               *)
(***************************************************************************)
Exc(type, msg) == [type |-> type, msg |-> msg]

Superclasses(type) ==
    CASE type = "FileNotFoundError" -> {"FileNotFoundError", "OSError", "Exception"}
      [] type = "PermissionError" -> {"PermissionError", "OSError", "Exception"}
      [] type = "UnidentifiedImageError" -> {"UnidentifiedImageError", "OSError", "Exception"}
      [] type = "ValueError" -> {"ValueError", "Exception"}
      [] type = "TypeError" -> {"TypeError", "Exception"}
      [] OTHER -> {type}

isinstance(e, cls) == cls \in Superclasses(e.type)

(***************************************************************************)
(* get_character_image_path                                                *)
(***************************************************************************)
\* the ASCII entries of the table (lines 46-52); the non-ASCII ones
\* (lines 50, 53-55) are looked up the same way
SPECIAL_CHARACTERS ==
    "!" :> "Exclamation" @@ "?" :> "Question" @@ "'" :> "Apostrophe"
    @@ "*" :> "Asterisk" @@ ")" :> "Bracket-Left" @@ "}" :> "Bracket-Left-2"
    @@ "]" :> "Bracket-Left-3" @@ "(" :> "Bracket-Right"
    @@ "{" :> "Bracket-Right-2" @@ "[" :> "Bracket-Right-3" @@ "^" :> "Caret"
    @@ ":" :> "Colon" @@ "$" :> "Dollar" @@ "=" :> "Equals"
    @@ ">" :> "Greater-than" @@ "-" :> "Hyphen" @@ "<" :> "Less-than"
    @@ "#" :> "Number" @@ "%" :> "Percent" @@ "." :> "Period" @@ "+" :> "Plus"
    @@ "\"" :> "Quotation" @@ ";" :> "Semicolon" @@ "/" :> "Slash"
    @@ "~" :> "Tilde" @@ "_" :> "Underscore" @@ "|" :> "Vertical-bar"
    @@ "," :> "Comma" @@ "&" :> "Ampersand"

\* SPECIAL_CHARACTERS.get(char, '')
special_label(char) ==
    IF char \in DOMAIN SPECIAL_CHARACTERS THEN SPECIAL_CHARACTERS[char] ELSE ""

\* mutant: the message without the character
not_found_unnamed(char) ==
    Exc("FileNotFoundError", "Image not found for character ''")

not_found(char) ==
    Exc("FileNotFoundError", "Image not found for character '" \o char \o "'")

\* mutant: the two case folders exchanged
char_img_path_of_swapped_case(char, font_paths) ==
    IF isalpha(char)
    THEN LET folder == IF islower(char) THEN "Upper-Case" ELSE "Lower-Case"
         IN  Some(path_join(path_join(font_paths[1], folder), char \o ".png"))
    ELSE IF isdigit(char)
    THEN Some(path_join(font_paths[2], char \o ".png"))
    ELSE IF char = " "
    THEN None
    ELSE Some(path_join(font_paths[3], special_label(char) \o ".png"))

\* lines 37-57: the path to test, or None for the space (line 43)
char_img_path_of(char, font_paths) ==
    IF isalpha(char)
    THEN LET folder == IF islower(char) THEN "Lower-Case" ELSE "Upper-Case"
         IN  Some(path_join(path_join(font_paths[1], folder), char \o ".png"))
    ELSE IF isdigit(char)
    THEN Some(path_join(font_paths[2], char \o ".png"))
    ELSE IF char = " "
    THEN None
    ELSE Some(path_join(font_paths[3], special_label(char) \o ".png"))

\* The call's outcome: the value returned (None or a path), the exception
\* raised (None or one), and the paths handed to os.path.isfile, in order.
get_character_image_path(char, font_paths) ==
    LET p == char_img_path_of(char, font_paths)
    IN  IF p = None
        THEN [value |-> None, exc |-> None, checked |-> << >>]
        ELSE IF ~isfile(p[1])
        THEN [value |-> None, exc |-> Some(not_found(char)), checked |-> <<p[1]>>]
        ELSE [value |-> p, exc |-> None, checked |-> <<p[1]>>]

(***************************************************************************)
(* PIL                                                                     *)
(***************************************************************************)
\* Image.new('RGBA', size, (0, 0, 0, 0))
image_new(w, h) == [src |-> "new", w |-> w, h |-> h]

\* Image.open(path).convert('RGBA') of a file that exists: the image, or
\* the exception the damaged file raises
image_open(path) ==
    LET f == Disk[path]
    IN  CASE f.status = "png" ->
               [img |-> Some([src |-> path, w |-> f.w, h |-> f.h]), exc |-> None]
          [] f.status = "garbage" ->
               [img |-> None,
                exc |-> Some(Exc("UnidentifiedImageError",
                                 "cannot identify image file '" \o path \o "'"))]
          [] f.status = "oddmode" ->
               [img |-> None,
                exc |-> Some(Exc("ValueError", "conversion not supported"))]
          [] OTHER ->
               [img |-> None,
                exc |-> Some(Exc("PermissionError",
                                 "[Errno 13] Permission denied: '" \o path \o "'"))]

\* os.path.splitext(name)[1]: from the last dot on, unless that dot leads
\* the name
splitext_ext(name) ==
    LET dots == {i \in 1..Len(name) : CharAt(name, i) = "."}
        \* the first character of the file name that is no dot
        body == {i \in 1..Len(name) : /\ CharAt(name, i) # "."
                                      /\ \A j \in i..Len(name) : CharAt(name, j) # "/"}
    IN  IF dots # {} /\ body # {} /\ SetMax(dots) > SetMin(body)
        THEN SubSeq(name, SetMax(dots), Len(name))
        ELSE ""

\* Image.save picks the format from the extension: ValueError when the
\* extension is not a registered one.  Otherwise the write succeeds or the
\* operating system refuses it.
SaveOutcomes(path) ==
    IF lower(splitext_ext(path)) # ".png"
    THEN { Some(Exc("ValueError",
                    "unknown file extension: " \o lower(splitext_ext(path)))) }
    ELSE { None,
           Some(Exc("FileNotFoundError",
                    "[Errno 2] No such file or directory: '" \o path \o "'")),
           Some(Exc("PermissionError",
                    "[Errno 13] Permission denied: '" \o path \o "'")) }

(***************************************************************************)
(* Inputs.                                                                 *)
(***************************************************************************)
\* one upper-case letter, one lower-case letter, one digit, the space, one
\* character of the table and one character outside it
Alphabet == {"A", "a", "7", " ", "!", "@"}

RECURSIVE TextsOfLen(_)
TextsOfLen(n) ==
    IF n = 0 THEN {""}
    ELSE {t \o c : t \in TextsOfLen(n - 1), c \in Alphabet}

\* texts with a tab, and the texts the entry treats as the exit command
ExtraTexts == {"\t", " \t", "A\tA", "exit", "Exit"}

Texts == UNION {TextsOfLen(n) : n \in 0..MaxLen} \cup ExtraTexts

RECURSIVE Repeat(_, _)
Repeat(c, n) ==
    IF n <= 0 THEN ""
    ELSE IF n = 1 THEN c
    ELSE Repeat(c, n \div 2) \o Repeat(c, n - n \div 2)

\* inputs whose untruncated file name is about MAX_FILENAME_LENGTH long:
\* one token, two tokens, and one token followed by a dropped one
LongTexts ==
    LET suffix == Len(untruncated_filename("", CHOOSE now \in Clocks : TRUE))
        around == {MAX_FILENAME_LENGTH - suffix + d : d \in (0 - Slack)..Slack}
    IN  {Repeat("a", n) : n \in around}
        \cup {Repeat("a", n - 2) \o " 7" : n \in around}
        \cup {Repeat("a", n) \o " !" : n \in around}

FilenameInputs == Texts \cup LongTexts \cup {"Hello World!", "Hello World"}

\* the (font, color) selections: three that exist on Disk, one that does not
FontSelections == {<<1, "Blue">>, <<1, "Orange-1">>, <<2, "Blue">>, <<5, "Blue">>}

\* file names handed to generate_image_with_filename by a caller other
\* than the window
DirectFilenames == {"out.png", ""}

\* every character get_character_image_path is probed with
ProbeChars ==
    UpperLetters \cup LowerLetters \cup DigitChars \cup WhitespaceChars
    \cup DOMAIN SPECIAL_CHARACTERS \cup {"@"}

(***************************************************************************)
(* State.                                                                  *)
(***************************************************************************)
VARIABLES
    pc,           \* where control is: "idle", "scan", "paste", "except",
                  \* "returned", "shown", "rejected", "probed"
    entry,        \* who called the renderer: "ui", "direct" or "none"
    text, filename, font_paths,     \* the renderer's arguments
    idx,          \* 1-based position of the running for loop
    img_height, char_images, chars, img, x,   \* the renderer's locals
    pasted,       \* the img.paste calls made, in order
    exc,          \* the exception being handled, or None
    result,       \* the pair returned, or None
    fs_log,       \* the file system calls made by the call in progress
    dialogs,      \* the message boxes shown by the handler in progress
    quit,         \* root.quit() was called
    probe         \* the last call of a pure function and its outcome

vars == << pc, entry, text, filename, font_paths, idx, img_height, char_images,
           chars, img, x, pasted, exc, result, fs_log, dialogs, quit, probe >>

locals == << idx, img_height, char_images, chars, img, x, pasted, exc, result >>

EmptyDict == [c \in {} |-> None]

FsCall(op, path) == [op |-> op, path |-> path]
Dialog(kind, msg) == [kind |-> kind, msg |-> msg]

FreshLocals ==
    /\ idx = 1
    /\ img_height = None
    /\ char_images = EmptyDict
    /\ chars = << >>
    /\ img = None
    /\ x = 0
    /\ pasted = << >>
    /\ exc = None
    /\ result = None

Init ==
    /\ pc = "idle"
    /\ entry = "none"
    /\ text = ""
    /\ filename = ""
    /\ font_paths = get_font_paths(1, "Blue")
    /\ FreshLocals
    /\ fs_log = << >>
    /\ dialogs = << >>
    /\ quit = FALSE
    /\ probe = None

(***************************************************************************)
(* generate_image_with_filename, step by step.                             *)
(***************************************************************************)
raise(e) ==
    /\ exc' = Some(e)
    /\ pc' = "except"

\* lines 73-79: the image for one character of the scan, or the exception
\* raised on the way, with the file system calls made
load_char_image(char, roots) ==
    IF char = " "
    THEN [img |-> Some(image_new(SPACE_WIDTH, 1)), exc |-> None, calls |-> << >>]
    ELSE LET located == get_character_image_path(char, roots)
             checks == [i \in 1..Len(located.checked) |->
                           FsCall("isfile", located.checked[i])]
         IN  IF located.exc # None
             THEN [img |-> None, exc |-> located.exc, calls |-> checks]
             ELSE IF located.value = None
             THEN [img |-> None, exc |-> Some(not_found(char)), calls |-> checks]
             ELSE LET opened == image_open(located.value[1])
                  IN  [img |-> opened.img, exc |-> opened.exc,
                       calls |-> Append(checks, FsCall("open", located.value[1]))]

\* line 81: char_images[char] = char_img
dict_set(d, key, value) ==
    [k \in DOMAIN d \cup {key} |-> IF k = key THEN value ELSE d[k]]

\* mutant: the tallest image so far instead of the first
next_img_height_max(height, char_img) ==
    IF height = None \/ height[1] < char_img.h THEN Some(char_img.h) ELSE height

\* line 82
next_img_height(height, char_img) ==
    IF height = None THEN Some(char_img.h) ELSE height

\* lines 65-69: the call itself
generate_image_with_filename ==
    /\ pc = "idle"
    /\ \E t \in Texts, name \in DirectFilenames, sel \in FontSelections :
          /\ text' = t
          /\ filename' = name
          /\ font_paths' = get_font_paths(sel[1], sel[2])
    /\ pc' = "scan"
    /\ entry' = "direct"
    /\ UNCHANGED << locals, fs_log, dialogs, quit, probe >>

\* lines 72-82: one iteration of the scan
scan_char ==
    /\ pc = "scan"
    /\ idx <= Len(text)
    /\ LET char == CharAt(text, idx)
           loaded == load_char_image(char, font_paths)
       IN  /\ fs_log' = fs_log \o loaded.calls
           /\ IF loaded.exc # None
              THEN /\ raise(loaded.exc[1])
                   /\ UNCHANGED << idx, img_height, char_images >>
              ELSE /\ char_images' = dict_set(char_images, char, loaded.img[1])
                   /\ img_height' = next_img_height(img_height, loaded.img[1])
                   /\ idx' = idx + 1
                   /\ UNCHANGED << pc, exc >>
    /\ UNCHANGED << entry, text, filename, font_paths, chars, img, x, pasted,
                    result, dialogs, quit, probe >>

\* mutant: size[1] for size[0]
char_width_from_height(char, images) ==
    IF char = " " THEN SPACE_WIDTH ELSE images[char].h

\* line 85: the advance width of one character
char_width(char, images) ==
    IF char = " " THEN SPACE_WIDTH ELSE images[char].w

\* line 85
chars_of(t, images) ==
    [i \in 1..Len(t) |-> << images[CharAt(t, i)], char_width(CharAt(t, i), images) >>]

\* line 86
RECURSIVE sum_widths(_)
sum_widths(cs) == IF cs = << >> THEN 0 ELSE cs[1][2] + sum_widths(Tail(cs))

\* lines 85-90: the list of images and widths, and the empty canvas.
\* Image.new raises TypeError when img_height is still None (its size check
\* compares None with 0).
layout ==
    /\ pc = "scan"
    /\ idx > Len(text)
    /\ LET cs == chars_of(text, char_images)
           total_width == sum_widths(cs)
       IN  /\ chars' = cs
           /\ IF img_height = None
              THEN /\ raise(Exc("TypeError",
                                "'NoneType' object cannot be interpreted as an integer"))
                   /\ UNCHANGED << img, idx >>
              ELSE /\ img' = Some(image_new(total_width, img_height[1]))
                   /\ idx' = 1
                   /\ pc' = "paste"
                   /\ UNCHANGED exc
    /\ x' = 0
    /\ UNCHANGED << entry, text, filename, font_paths, img_height, char_images,
                    pasted, result, fs_log, dialogs, quit, probe >>

\* mutant: x = char_width for x += char_width
advance_overwrites(cursor, width) == width

\* line 94
advance(cursor, width) == cursor + width

\* lines 92-94: one iteration of the paste loop
paste_char ==
    /\ pc = "paste"
    /\ idx <= Len(chars)
    /\ pasted' = Append(pasted, [img |-> chars[idx][1], x |-> x, y |-> 0])
    /\ x' = advance(x, chars[idx][2])
    /\ idx' = idx + 1
    /\ UNCHANGED << pc, entry, text, filename, font_paths, img_height, char_images,
                    chars, img, exc, result, fs_log, dialogs, quit, probe >>

\* lines 97-98: img.save(img_path) and the successful return
save ==
    /\ pc = "paste"
    /\ idx > Len(chars)
    /\ LET img_path == path_join(DESKTOP_PATH, filename)
       IN  \E outcome \in SaveOutcomes(img_path) :
              IF outcome = None
              THEN /\ fs_log' = Append(fs_log, FsCall("save", img_path))
                   /\ result' = Some(<< Some(filename), None >>)
                   /\ pc' = "returned"
                   /\ UNCHANGED exc
              ELSE /\ fs_log' = Append(fs_log, FsCall("save failed", img_path))
                   /\ raise(outcome[1])
                   /\ UNCHANGED result
    /\ UNCHANGED << entry, text, filename, font_paths, idx, img_height, char_images,
                    chars, img, x, pasted, dialogs, quit, probe >>

\* mutant: the final except Exception clause left out
except_clause_no_catch_all(e) ==
    IF isinstance(e, "FileNotFoundError") THEN 1
    ELSE IF isinstance(e, "UnidentifiedImageError") THEN 2
    ELSE IF isinstance(e, "ValueError") THEN 3
    ELSE 0

\* the except clause, 1 to 4 in the order of lines 100-109, that catches e
except_clause(e) ==
    IF isinstance(e, "FileNotFoundError") THEN 1
    ELSE IF isinstance(e, "UnidentifiedImageError") THEN 2
    ELSE IF isinstance(e, "ValueError") THEN 3
    ELSE IF isinstance(e, "Exception") THEN 4
    ELSE 0

returns_error(msg) ==
    /\ result' = Some(<< None, Some(msg) >>)
    /\ pc' = "returned"
    /\ exc' = None
    /\ UNCHANGED << entry, text, filename, font_paths, idx, img_height, char_images,
                    chars, img, x, pasted, fs_log, dialogs, quit, probe >>

\* lines 100-101
except_FileNotFoundError ==
    /\ pc = "except"
    /\ except_clause(exc[1]) = 1
    /\ returns_error(exc[1].msg)

\* lines 103-104
except_UnidentifiedImageError ==
    /\ pc = "except"
    /\ except_clause(exc[1]) = 2
    /\ returns_error("Error: Unsupported image format")

\* lines 106-107
except_ValueError ==
    /\ pc = "except"
    /\ except_clause(exc[1]) = 3
    /\ returns_error("Error: Invalid input - " \o exc[1].msg)

\* lines 109-110
except_Exception ==
    /\ pc = "except"
    /\ except_clause(exc[1]) = 4
    /\ returns_error("An unexpected error occurred: " \o exc[1].msg \o ".")

(***************************************************************************)
(* ui.py: generate_and_display_image.  The name it imports, generate_image, *)
(* is generate_image_with_filename.  Nothing in the try block raises, so   *)
(* the window's own except clauses (lines 52-57) are never entered.        *)
(***************************************************************************)
CLOSING_MESSAGE == "Closing..."

\* lines 34-36
exit_dialogs(t) ==
    IF lower(t) = "exit" THEN << Dialog("info", CLOSING_MESSAGE) >> ELSE << >>

\* mutant: not text for not text.strip()
is_empty_input_no_strip(t) == t = ""

\* line 39
is_empty_input(t) == strip(t) = ""

\* lines 29-46: up to the call of the renderer, or the early return
generate_and_display_image ==
    /\ pc = "idle"
    /\ ~quit
    /\ \E t \in Texts, sel \in FontSelections, now \in Clocks :
          LET font == sel[1]
              color == sel[2]
          IN  /\ quit' = (lower(t) = "exit")
              /\ text' = t
              /\ IF is_empty_input(t)
                 THEN /\ dialogs' = Append(exit_dialogs(t),
                             Dialog("error",
                                    "Input text is empty. Please enter some text."))
                      /\ pc' = "rejected"
                      /\ UNCHANGED << filename, font_paths >>
                 ELSE /\ dialogs' = exit_dialogs(t)
                      /\ filename' = generate_filename(t, now)
                      /\ font_paths' = get_font_paths(font, color)
                      /\ pc' = "scan"
    /\ entry' = "ui"
    /\ UNCHANGED << locals, fs_log, probe >>

\* lines 46-51: the renderer has returned to the window
show_result ==
    /\ pc = "returned"
    /\ entry = "ui"
    /\ LET img_path == result[1][1]
           error_message_generate == result[1][2]
       IN  dialogs' = Append(dialogs,
               IF error_message_generate # None /\ error_message_generate[1] # ""
               THEN Dialog("error", "Error: " \o error_message_generate[1])
               ELSE Dialog("info", "Image successfully generated and saved as: "
                                   \o img_path[1]))
    /\ pc' = "shown"
    /\ UNCHANGED << entry, text, filename, font_paths, locals, fs_log, quit, probe >>

(***************************************************************************)
(* Calls of the two pure functions on their own.                           *)
(***************************************************************************)
call_generate_filename ==
    /\ pc = "idle"
    /\ \E user_input \in FilenameInputs, now \in Clocks :
          probe' = Some([fn |-> "generate_filename", user_input |-> user_input,
                         now |-> now, out |-> generate_filename(user_input, now)])
    /\ pc' = "probed"
    /\ UNCHANGED << entry, text, filename, font_paths, locals, fs_log, dialogs, quit >>

call_get_character_image_path ==
    /\ pc = "idle"
    /\ \E char \in ProbeChars, sel \in FontSelections :
          LET roots == get_font_paths(sel[1], sel[2])
              out == get_character_image_path(char, roots)
          IN  /\ probe' = Some([fn |-> "get_character_image_path", char |-> char,
                                font_paths |-> roots, out |-> out])
              /\ fs_log' = [i \in 1..Len(out.checked) |->
                               FsCall("isfile", out.checked[i])]
    /\ pc' = "probed"
    /\ UNCHANGED << entry, text, filename, font_paths, locals, dialogs, quit >>

\* the call has returned; the next one starts with fresh locals (in the
\* window: back in root.mainloop(), unless root.quit() ended it)
next_call ==
    /\ pc \in {"shown", "rejected", "probed"} \/ (pc = "returned" /\ entry = "direct")
    /\ ~quit
    /\ pc' = "idle"
    /\ entry' = "none"
    /\ text' = ""
    /\ filename' = ""
    /\ font_paths' = get_font_paths(1, "Blue")
    /\ idx' = 1
    /\ img_height' = None
    /\ char_images' = EmptyDict
    /\ chars' = << >>
    /\ img' = None
    /\ x' = 0
    /\ pasted' = << >>
    /\ exc' = None
    /\ result' = None
    /\ fs_log' = << >>
    /\ dialogs' = << >>
    /\ probe' = None
    /\ UNCHANGED quit

Next ==
    \/ generate_image_with_filename
    \/ generate_and_display_image
    \/ scan_char
    \/ layout
    \/ paste_char
    \/ save
    \/ except_FileNotFoundError
    \/ except_UnidentifiedImageError
    \/ except_ValueError
    \/ except_Exception
    \/ show_result
    \/ call_generate_filename
    \/ call_get_character_image_path
    \/ next_call

Spec == Init /\ [][Next]_vars

(***************************************************************************)
(* What the properties below speak about.                                  *)
(***************************************************************************)
Returned == pc \in {"returned", "shown"}
Succeeded == Returned /\ result # None /\ result[1][1] # None
Failed == Returned /\ result # None /\ result[1][1] = None

\* the glyph file of a character that is no space
GlyphFile(c, roots) == char_img_path_of(c, roots)[1]

HasGlyphFile(c, roots) == GlyphFile(c, roots) \in DOMAIN Disk
Decodes(c, roots) == HasGlyphFile(c, roots) /\ Disk[GlyphFile(c, roots)].status = "png"

NonSpaces(t) == {i \in 1..Len(t) : CharAt(t, i) # " "}
MissingAt(t, roots) == {i \in NonSpaces(t) : ~HasGlyphFile(CharAt(t, i), roots)}
DamagedAt(t, roots) ==
    {i \in NonSpaces(t) : /\ HasGlyphFile(CharAt(t, i), roots)
                          /\ ~Decodes(CharAt(t, i), roots)}

\* the advance width of a character whose glyph decodes
AdvanceWidth(c, roots) ==
    IF c = " " THEN SPACE_WIDTH ELSE Disk[GlyphFile(c, roots)].w

\* the sum of the advance widths of the first n characters of t
RECURSIVE AdvanceSum(_, _, _)
AdvanceSum(t, roots, n) ==
    IF n = 0 THEN 0
    ELSE AdvanceSum(t, roots, n - 1) + AdvanceWidth(CharAt(t, n), roots)

CallsOf(op) == {i \in 1..Len(fs_log) : fs_log[i].op = op}
SaveAttempted == CallsOf("save") \cup CallsOf("save failed") # {}

(***************************************************************************)
(* C1.  As claimed: for every text made only of spaces and of characters   *)
(* whose glyph asset exists (a file that decodes), the call succeeds (as   *)
(* far as img.save lets it) and the canvas is as wide as the sum of the    *)
(* advance widths of its characters.  The empty text is such a text.       *)
(***************************************************************************)
C1_OnlyGlyphsAndSpaces ==
    /\ MissingAt(text, font_paths) = {}
    /\ DamagedAt(text, font_paths) = {}

C1_AsClaimed ==
    (Returned /\ C1_OnlyGlyphsAndSpaces)
        => /\ img # None
           /\ img[1].w = AdvanceSum(text, font_paths, Len(text))
           /\ (Succeeded \/ CallsOf("save failed") # {})

(***************************************************************************)
(* C1, amended.  For every non-empty text made only of spaces and of       *)
(* characters whose glyph asset exists, the canvas is created and is       *)
(* exactly as wide as the sum, in text order, of the advance widths        *)
(* (SPACE_WIDTH = 30 for a space, the glyph's width otherwise), and the    *)
(* call succeeds unless img.save itself raises.                            *)
(***************************************************************************)
C1_Usable == text # "" /\ C1_OnlyGlyphsAndSpaces

C1_CanvasWidthIsAdvanceSum ==
    (Returned /\ C1_Usable)
        => /\ SPACE_WIDTH = 30
           /\ img # None
           /\ img[1].w = AdvanceSum(text, font_paths, Len(text))
           /\ (Succeeded \/ CallsOf("save failed") # {})
           /\ (Succeeded => result[1] = << Some(filename), None >>)

\* a successful render of a text with a repeated glyph and a space
C1_Witness ==
    /\ Succeeded
    /\ C1_Usable
    /\ Len(text) = 3
    /\ CharAt(text, 1) = CharAt(text, 3)
    /\ CharAt(text, 1) # " "
    /\ CharAt(text, 2) = " "

(***************************************************************************)
(* C2.  As claimed: a text with a non-space character that has no glyph    *)
(* file fails with the not-found error of the leftmost such character,     *)
(* returns (None, message) and never reaches img.save.                     *)
(***************************************************************************)
C2_LeftmostMissing == CharAt(text, SetMin(MissingAt(text, font_paths)))

C2_AsClaimed ==
    (Returned /\ MissingAt(text, font_paths) # {})
        => /\ result[1] = << None, Some(not_found(C2_LeftmostMissing).msg) >>
           /\ ~SaveAttempted

(***************************************************************************)
(* C2, amended.  Such a text always fails with (None, message) and never   *)
(* reaches img.save; the message is the not-found error naming the         *)
(* leftmost character without a glyph file provided no character before it *)
(* has a glyph file that exists but cannot be opened or decoded (then the  *)
(* render fails earlier, with that file's error).                          *)
(***************************************************************************)
C2_MissingGlyphFails ==
    (Returned /\ MissingAt(text, font_paths) # {})
        => /\ Failed
           /\ result[1][2] # None
           /\ ~SaveAttempted
           /\ LET first == SetMin(MissingAt(text, font_paths))
              IN  IF \A i \in DamagedAt(text, font_paths) : i > first
                  THEN result[1][2] =
                           Some("Image not found for character '"
                                \o CharAt(text, first) \o "'")
                  ELSE \A i \in MissingAt(text, font_paths) :
                           result[1][2] # Some(not_found(CharAt(text, i)).msg)

\* two different characters without a glyph file: the leftmost is named
C2_Witness ==
    /\ Failed
    /\ Cardinality({CharAt(text, i) : i \in MissingAt(text, font_paths)}) >= 2
    /\ DamagedAt(text, font_paths) = {}
    /\ result[1][2] = Some(not_found(C2_LeftmostMissing).msg)

(***************************************************************************)
(* C3.  Once set, img_height is the height of the image obtained for the   *)
(* first character of the text (1 for a space), whatever follows, and the  *)
(* canvas of a successful render has that height.                          *)
(***************************************************************************)
C3_FirstHeight ==
    IF CharAt(text, 1) = " " THEN 1
    ELSE Disk[GlyphFile(CharAt(text, 1), font_paths)].h

C3_HeightOfFirstCharacter ==
    /\ (img_height # None => img_height[1] = C3_FirstHeight)
    /\ (img # None => img[1].h = C3_FirstHeight)
    /\ (Succeeded /\ text # "" => img # None)

\* " A"-like: a leading space, then a taller glyph
C3_Witness ==
    /\ Succeeded
    /\ Len(text) >= 2
    /\ CharAt(text, 1) = " "
    /\ \E i \in NonSpaces(text) : Disk[GlyphFile(CharAt(text, i), font_paths)].h > 1
    /\ img[1].h = 1

(***************************************************************************)
(* C4.  As claimed: within one render no glyph file is looked up or opened *)
(* more than once, however often its character occurs.                     *)
(***************************************************************************)
C4_EachGlyphLoadedOnce ==
    entry \in {"ui", "direct"}
        => \A i, j \in CallsOf("isfile") \cup CallsOf("open") :
               (fs_log[i] = fs_log[j]) => i = j

(***************************************************************************)
(* C5.  A request from the window whose text is empty or all whitespace is *)
(* rejected with the empty-input error before the renderer runs: no glyph  *)
(* path is checked, no image is opened, nothing is saved.                  *)
(***************************************************************************)
C5_Blank(t) == \A i \in 1..Len(t) : CharAt(t, i) \in {" ", "\t"}

C6_ExactlyOnePopulated ==
    /\ (pc = "except" => exc # None /\ except_clause(exc[1]) \in 1..4)
    /\ (pc = "except" =>
            ENABLED (\/ except_FileNotFoundError \/ except_UnidentifiedImageError
                     \/ except_ValueError \/ except_Exception))
    /\ (Returned =>
            /\ result # None
            /\ \/ /\ result[1][1] = Some(filename)
                  /\ filename # ""
                  /\ result[1][2] = None
               \/ /\ result[1][1] = None
                  /\ result[1][2] # None
                  /\ result[1][2][1] # "")

\* the empty text: Image.new raises TypeError, the last clause catches it
C6_Witness ==
    /\ Failed
    /\ text = ""
    /\ entry = "direct"
    /\ result[1][2] # None

(***************************************************************************)
(* C7.  As claimed: the text portion of the name is made of the            *)
(* alphanumeric content of every whitespace-separated token, joined with   *)
(* '-'; "Hello World!" gives Hello-World.                                  *)
(***************************************************************************)
RECURSIVE C7_AlnumContent(_)
C7_AlnumContent(tok) ==
    IF Len(tok) = 0 THEN ""
    ELSE IF Len(tok) = 1 THEN (IF isalnum(tok) THEN tok ELSE "")
    ELSE LET h == Len(tok) \div 2
         IN  C7_AlnumContent(SubSeq(tok, 1, h))
             \o C7_AlnumContent(SubSeq(tok, h + 1, Len(tok)))

C7_Stripped(user_input) ==
    LET toks == split(user_input)
        content == [i \in 1..Len(toks) |-> C7_AlnumContent(toks[i])]
    IN  join("-", SelectSeq(content, LAMBDA tok : tok # ""))

C7_AsClaimed ==
    (probe # None /\ probe[1].fn = "generate_filename")
        => LET full == C7_Stripped(probe[1].user_input)
                       \o "-" \o strftime(probe[1].now) \o ".png"
           IN  /\ probe[1].user_input = "Hello World!"
                    => probe[1].out = "Hello-World-" \o strftime(probe[1].now) \o ".png"
               /\ Len(full) <= MAX_FILENAME_LENGTH => probe[1].out = full

(***************************************************************************)
(* C8.  The name returned by generate_filename is never empty, never       *)
(* longer than MAX_FILENAME_LENGTH = 255, and is the first min(255, n)     *)
(* characters of the untruncated name of length n.                         *)
(***************************************************************************)
C8_Untruncated ==
    sanitize_input(probe[1].user_input) \o "-" \o strftime(probe[1].now) \o ".png"

C8_LengthBounded ==
    (probe # None /\ probe[1].fn = "generate_filename")
        => LET out == probe[1].out
               n == Len(C8_Untruncated)
           IN  /\ MAX_FILENAME_LENGTH = 255
               /\ Len(out) >= 1
               /\ Len(out) <= 255
               /\ Len(out) = Min(255, n)
               /\ out = SubSeq(C8_Untruncated, 1, Len(out))

\* a name cut inside its extension
C8_Witness ==
    /\ probe # None
    /\ probe[1].fn = "generate_filename"
    /\ Len(C8_Untruncated) > 255
    /\ Len(probe[1].out) = 255
    /\ SubSeq(probe[1].out, 253, 255) # "png"

(***************************************************************************)
(* C9.  The i-th paste is the image of the i-th character, at y = 0 and at *)
(* x = the sum of the advance widths of the characters before it; pasted   *)
(* images never overlap horizontally; after the last paste the cursor      *)
(* equals the canvas width.                                                *)
(***************************************************************************)
C9_ImageOf(c) ==
    IF c = " " THEN image_new(SPACE_WIDTH, 1)
    ELSE LET f == GlyphFile(c, font_paths)
         IN  [src |-> f, w |-> Disk[f].w, h |-> Disk[f].h]

C9_PastedInOrder ==
    /\ Len(pasted) <= Len(text)
    /\ \A i \in 1..Len(pasted) :
          /\ pasted[i].y = 0
          /\ pasted[i].x = AdvanceSum(text, font_paths, i - 1)
          /\ pasted[i].img = C9_ImageOf(CharAt(text, i))
    /\ \A i, j \in 1..Len(pasted) :
          i < j => pasted[i].x + pasted[i].img.w <= pasted[j].x
    /\ (pc = "paste" => x = AdvanceSum(text, font_paths, Len(pasted)))
    /\ (Succeeded => /\ Len(pasted) = Len(text)
                     /\ x = img[1].w)

C9_Witness ==
    /\ Succeeded
    /\ Len(pasted) = 3
    /\ Cardinality({pasted[i].img : i \in 1..3}) = 3
    /\ pasted[3].x > pasted[2].x
    /\ pasted[2].x > 0

(***************************************************************************)
(* C10.  get_character_image_path is total and agrees with the lookup in   *)
(* the order space, letter, digit, special table; the three classes never  *)
(* overlap; a space yields None without any os.path.isfile call; a letter  *)
(* is looked up under Letters/Lower-Case or Letters/Upper-Case, a digit    *)
(* under Numbers, anything else under Symbols by its label, the empty      *)
(* label when the table has none.                                          *)
(***************************************************************************)
C10_Classes(c) ==
    {k \in {"space", "alphabetic", "digit", "other"} :
        \/ k = "space" /\ c = " "
        \/ k = "alphabetic" /\ isalpha(c)
        \/ k = "digit" /\ isdigit(c)
        \/ k = "other" /\ ~(c = " " \/ isalpha(c) \/ isdigit(c))}

C10_PriorityPath(c, roots) ==
    IF c = " " THEN None
    ELSE IF c \in UpperLetters \cup LowerLetters
    THEN Some(roots[1] \o "/"
              \o (IF c \in LowerLetters THEN "Lower-Case" ELSE "Upper-Case")
              \o "/" \o c \o ".png")
    ELSE IF c \in DigitChars
    THEN Some(roots[2] \o "/" \o c \o ".png")
    ELSE IF c \in DOMAIN SPECIAL_CHARACTERS
    THEN Some(roots[3] \o "/" \o SPECIAL_CHARACTERS[c] \o ".png")
    ELSE Some(roots[3] \o "/" \o ".png")

C10_LocateByPriority ==
    (probe # None /\ probe[1].fn = "get_character_image_path")
        => LET c == probe[1].char
               out == probe[1].out
               want == C10_PriorityPath(c, probe[1].font_paths)
           IN  /\ Cardinality(C10_Classes(c)) = 1
               /\ IF want = None
                  THEN out.value = None /\ out.exc = None /\ fs_log = << >>
                  ELSE /\ fs_log = << FsCall("isfile", want[1]) >>
                       /\ IF want[1] \in DOMAIN Disk
                          THEN out.value = want /\ out.exc = None
                          ELSE /\ out.value = None
                               /\ out.exc = Some(Exc("FileNotFoundError",
                                      "Image not found for character '" \o c \o "'"))

\* the space: None, and no file system call
C10_Witness ==
    /\ probe # None
    /\ probe[1].fn = "get_character_image_path"
    /\ probe[1].char = " "
    /\ probe[1].out.value = None
    /\ probe[1].out.exc = None
    /\ fs_log = << >>

====
